---- MODULE Spec2Model ----
(***************************************************************************)
(* Model of C2VSimFG_MapHeads.py: the conversion of an IWFM heads-out     *)
(* text file to csv (get_header_from_headsout_file, headsout_to_csv) and  *)
(* the "convert only if the csv does not exist" guard of the main script. *)
(*                                                                         *)
(* Text is modelled as a sequence of one-character strings, a file as a   *)
(* sequence of lines, each line ending with its newline character, as     *)
(* Python's file iteration delivers it.                                   *)
(***************************************************************************)
EXTENDS Integers, Sequences, FiniteSets, TLC

\* Longest input stream (number of physical lines) drawn from SampleLines.
MaxLines == 4
\* Number of program runs on the same input and output paths.
MaxRuns == 2

----------------------------------------------------------------------------
\* Input lines

\* Marker-prefixed lines: "*", "* T", "* T 1"
MarkerLines ==
    { <<"*", "\n">>,
      <<"*", " ", "T", "\n">>,
      <<"*", " ", "T", " ", "1", "\n">> }

\* Non-marker lines: "a 5", "b 6", " 7", "", "a 5 6", "c,d 5"
DataLines ==
    { <<"a", " ", "5", "\n">>,
      <<"b", " ", "6", "\n">>,
      <<" ", "7", "\n">>,
      <<"\n">>,
      <<"a", " ", "5", " ", "6", "\n">>,
      <<"c", ",", "d", " ", "5", "\n">> }

SampleLines == MarkerLines \cup DataLines

\* The lines of the documented scenario.
ScenarioHeaderLine ==
    <<"*", " ", "1", " ", "D", "A", "T", "E", " ", "N", "O", "D", "E", "1",
      " ", "N", "O", "D", "E", "2", "\n">>
ScenarioHeaderLineNoLabel ==
    <<"*", " ", "D", "A", "T", "E", " ", "N", "O", "D", "E", "1",
      " ", "N", "O", "D", "E", "2", "\n">>
ScenarioDataLine ==
    <<"0", "1", "/", "0", "1", "/", "2", "0", "0", "0", "_", "0", "0", "0", "0",
      " ", "1", ".", "1", " ", "2", ".", "2", "\n">>

ScenarioStream == <<ScenarioHeaderLine, ScenarioDataLine>>
ScenarioStreamNoLabel == <<ScenarioHeaderLineNoLabel, ScenarioDataLine>>

Streams ==
    (UNION { [1..n -> SampleLines] : n \in 0..MaxLines })
        \cup {ScenarioStream, ScenarioStreamNoLabel}

----------------------------------------------------------------------------
\* Python built-ins used by the code

Whitespace == {" ", "\n"}

RECURSIVE SplitFrom(_, _, _)
SplitFrom(s, cur, acc) ==
    IF s = <<>>
    THEN IF cur = <<>> THEN acc ELSE Append(acc, cur)
    ELSE IF Head(s) \in Whitespace
         THEN SplitFrom(Tail(s), <<>>, IF cur = <<>> THEN acc ELSE Append(acc, cur))
         ELSE SplitFrom(Tail(s), Append(cur, Head(s)), acc)

\* str.split(): maximal runs of non-whitespace characters
split(line) == SplitFrom(line, <<>>, <<>>)

RECURSIVE join(_, _)
\* sep.join(list)
join(sep, list) ==
    IF list = <<>> THEN <<>>
    ELSE IF Len(list) = 1 THEN list[1]
    ELSE list[1] \o sep \o join(sep, Tail(list))

\* insert with the index off by one
insertOffByOne(list, index, x) ==
    LET k == IF index + 1 > Len(list) THEN Len(list) ELSE index + 1
    IN  SubSeq(list, 1, k) \o <<x>> \o SubSeq(list, k + 1, Len(list))

\* list.insert(index, x) for index >= 0: an index past the end appends
insert(list, index, x) ==
    LET k == IF index > Len(list) THEN Len(list) ELSE index
    IN  SubSeq(list, 1, k) \o <<x>> \o SubSeq(list, k + 1, Len(list))

Digits == <<"0", "1", "2", "3", "4", "5", "6", "7", "8", "9">>

RECURSIVE str(_)
\* str(n) for n >= 0: decimal digits
str(n) ==
    IF n < 10 THEN <<Digits[n + 1]>>
    ELSE str(n \div 10) \o <<Digits[(n % 10) + 1]>>

LayerName == <<"L", "a", "y", "e", "r">>
Comma == <<",">>
Newline == <<"\n">>

----------------------------------------------------------------------------
\* get_header_from_headsout_file

\* line[0] != '*'
IsData(line) == line[1] # "*"

None == [exc |-> "", none |-> TRUE, val |-> <<>>]
Return(v) == [exc |-> "", none |-> FALSE, val |-> v]
Raise(e) == [exc |-> e, none |-> TRUE, val |-> <<>>]

Unbound == [bound |-> FALSE, val |-> <<>>]

\* header[2:]: a label after the marker token is dropped too
DropFirstTwo(header) == IF Len(header) < 2 THEN <<>> ELSE Tail(Tail(header))

\* header[0:]: the marker token is kept
DropNothing(header) == header

\* header[1:]
DropFirst(header) == IF header = <<>> THEN <<>> ELSE Tail(header)

RECURSIVE HeaderScan(_, _, _)
\* the loop over the lines, k the line about to be read
HeaderScan(f, k, previous_line) ==
    IF k > Len(f) THEN None
    ELSE IF IsData(f[k])
         THEN IF previous_line.bound
              THEN Return(DropFirst(split(previous_line.val)))
              ELSE None
         ELSE HeaderScan(f, k + 1, [bound |-> TRUE, val |-> f[k]])

\* the header is taken from the last line read when the loop runs out
get_header_after_loop(f) ==
    IF \E k \in 1..Len(f) : IsData(f[k]) THEN HeaderScan(f, 1, Unbound)
    ELSE IF f = <<>> THEN Raise("NameError")
    ELSE Return(DropFirst(split(f[Len(f)])))

get_header_from_headsout_file(f) == HeaderScan(f, 1, Unbound)

----------------------------------------------------------------------------
\* headsout_to_csv and the main script

VARIABLES
    headsout_file,  \* the input stream: a sequence of lines
    csv_exists,     \* os.path.exists(headsout_csv)
    out_csv,        \* the contents of headsout_csv
    pc,             \* position of the run
    run,            \* number of the current program run
    header,         \* result of get_header_from_headsout_file
    num_columns,    \* len(header) before 'Layer' is inserted
    i,              \* enumerate index of the line about to be read (0-based)
    layer,          \* local layer
    date,           \* local date
    bound,          \* which of the locals layer, date are bound
    error,          \* the exception that ended the run
    accepted        \* history: the accepted lines of this run and their line_list

vars == <<headsout_file, csv_exists, out_csv, pc, run, header, num_columns,
          i, layer, date, bound, error, accepted>>

NoError == [kind |-> "", line |-> 0]

Init ==
    /\ headsout_file \in Streams
    /\ csv_exists = FALSE
    /\ out_csv = <<>>
    /\ pc = "main"
    /\ run = 1
    /\ header = None
    /\ num_columns = 0
    /\ i = 0
    /\ layer = 0
    /\ date = <<>>
    /\ bound = {}
    /\ error = NoError
    /\ accepted = <<>>

\* if not os.path.exists(headsout_csv): headsout_to_csv(...)
ConvertIfMissing ==
    /\ pc = "main"
    /\ pc' = IF csv_exists THEN "skipped" ELSE "extract"
    /\ UNCHANGED <<headsout_file, csv_exists, out_csv, run, header, num_columns,
                   i, layer, date, bound, error, accepted>>

\* header = get_header_from_headsout_file(headsout_file); num_columns = len(header)
ExtractHeader ==
    /\ pc = "extract"
    /\ LET h == get_header_from_headsout_file(headsout_file)
       IN  /\ header' = h
           /\ IF h.exc # ""
              THEN /\ pc' = "failed"
                   /\ error' = [kind |-> h.exc, line |-> 0]
                   /\ UNCHANGED num_columns
              ELSE IF h.none
              THEN /\ pc' = "failed"
                   /\ error' = [kind |-> "TypeError", line |-> 0]
                   /\ UNCHANGED num_columns
              ELSE /\ pc' = "open"
                   /\ num_columns' = Len(h.val)
                   /\ UNCHANGED error
    /\ UNCHANGED <<headsout_file, csv_exists, out_csv, run, i, layer, date,
                   bound, accepted>>

\* header.insert(1, 'Layer'); open(headsout_csv, 'w'); write(','.join(header))
WriteHeader ==
    /\ pc = "open"
    /\ header' = Return(insert(header.val, 1, LayerName))
    /\ csv_exists' = TRUE
    /\ out_csv' = join(Comma, insert(header.val, 1, LayerName))
    /\ i' = 0
    /\ pc' = "loop"
    /\ UNCHANGED <<headsout_file, run, num_columns, layer, date, bound, error,
                   accepted>>

\* the line read by this iteration
Line == headsout_file[i + 1]

\* the enumerate index itself
ErrLineZeroBased(k) == k

\* the line number of the ValueError message: i + 1
ErrLine(k) == k + 1

\* the layer keeps counting across Full records
FullLayerNoReset(l) == l + 1

\* layer = 1
FullLayer(l) == 1

\* layer += 1
ContinuationLayer(l) == l + 1

\* out_csv.write('\n'); line_list.insert(1, str(layer)); out_csv.write(','.join(line_list))
WriteRecord(line_list, l) ==
    /\ out_csv' = out_csv \o Newline \o join(Comma, insert(line_list, 1, str(l)))
    /\ accepted' = Append(accepted, [pos |-> i + 1,
                                     rec |-> insert(line_list, 1, str(l))])

Fail(kind, line) ==
    /\ pc' = "failed"
    /\ error' = [kind |-> kind, line |-> line]

\* a line starting with '*' is skipped
SkipMarker ==
    /\ pc = "loop"
    /\ i < Len(headsout_file)
    /\ ~IsData(Line)
    /\ i' = i + 1
    /\ UNCHANGED <<headsout_file, csv_exists, out_csv, pc, run, header,
                   num_columns, layer, date, bound, error, accepted>>

\* len(line_list) == num_columns
FullRecord ==
    /\ pc = "loop"
    /\ i < Len(headsout_file)
    /\ IsData(Line)
    /\ LET line_list == split(Line)
       IN  /\ Len(line_list) = num_columns
           /\ layer' = FullLayer(layer)
           /\ IF line_list = <<>>
              THEN \* date = line_list[0] on an empty list
                   /\ Fail("IndexError", 0)
                   /\ bound' = bound \cup {"layer"}
                   /\ UNCHANGED <<date, out_csv, accepted, i>>
              ELSE /\ date' = line_list[1]
                   /\ bound' = bound \cup {"layer", "date"}
                   /\ WriteRecord(line_list, FullLayer(layer))
                   /\ i' = i + 1
                   /\ UNCHANGED <<pc, error>>
    /\ UNCHANGED <<headsout_file, csv_exists, run, header, num_columns>>

\* len(line_list) == num_columns - 1
ContinuationRecord ==
    /\ pc = "loop"
    /\ i < Len(headsout_file)
    /\ IsData(Line)
    /\ LET line_list == split(Line)
       IN  /\ Len(line_list) # num_columns
           /\ Len(line_list) = num_columns - 1
           /\ IF "layer" \notin bound
              THEN \* layer += 1 on an unbound local
                   /\ Fail("UnboundLocalError", 0)
                   /\ UNCHANGED <<layer, out_csv, accepted, i>>
              ELSE /\ layer' = ContinuationLayer(layer)
                   /\ WriteRecord(insert(line_list, 0, date), ContinuationLayer(layer))
                   /\ i' = i + 1
                   /\ UNCHANGED <<pc, error>>
    /\ UNCHANGED <<headsout_file, csv_exists, run, header, num_columns, date, bound>>

\* the newline of the record is written before the shape is checked
BadShapeAfterNewline ==
    /\ pc = "loop"
    /\ i < Len(headsout_file)
    /\ IsData(Line)
    /\ Len(split(Line)) # num_columns
    /\ Len(split(Line)) # num_columns - 1
    /\ Fail("ValueError", ErrLine(i))
    /\ out_csv' = out_csv \o Newline
    /\ UNCHANGED <<headsout_file, csv_exists, run, header, num_columns,
                   i, layer, date, bound, accepted>>

\* raise ValueError('line {} in file does not have the correct number of values')
BadShape ==
    /\ pc = "loop"
    /\ i < Len(headsout_file)
    /\ IsData(Line)
    /\ Len(split(Line)) # num_columns
    /\ Len(split(Line)) # num_columns - 1
    /\ Fail("ValueError", ErrLine(i))
    /\ UNCHANGED <<headsout_file, csv_exists, out_csv, run, header, num_columns,
                   i, layer, date, bound, accepted>>

\* the input is exhausted: both files are closed
EndOfFile ==
    /\ pc = "loop"
    /\ i = Len(headsout_file)
    /\ pc' = "done"
    /\ UNCHANGED <<headsout_file, csv_exists, out_csv, run, header, num_columns,
                   i, layer, date, bound, error, accepted>>

\* the program is started again on the same input and output paths
NextRun ==
    /\ pc \in {"done", "failed", "skipped"}
    /\ run < MaxRuns
    /\ run' = run + 1
    /\ pc' = "main"
    /\ header' = None
    /\ num_columns' = 0
    /\ i' = 0
    /\ layer' = 0
    /\ date' = <<>>
    /\ bound' = {}
    /\ error' = NoError
    /\ accepted' = <<>>
    /\ UNCHANGED <<headsout_file, csv_exists, out_csv>>

Next ==
    \/ ConvertIfMissing
    \/ ExtractHeader
    \/ WriteHeader
    \/ SkipMarker
    \/ FullRecord
    \/ ContinuationRecord
    \/ BadShape
    \/ EndOfFile
    \/ NextRun

Spec == Init /\ [][Next]_vars

----------------------------------------------------------------------------
\* Reference definitions used to state the properties

TokenCount(line) == Len(split(line))

DataIndices(f) == { k \in 1..Len(f) : IsData(f[k]) }

HasData(f) == DataIndices(f) # {}

\* 1-based position of the first data-bearing line, 0 if there is none
FirstDataIndex(f) ==
    IF HasData(f)
    THEN CHOOSE k \in DataIndices(f) : \A m \in DataIndices(f) : k <= m
    ELSE 0

\* a Schema is derived: a marker line immediately precedes the first data line
SchemaDerived(f) == FirstDataIndex(f) > 1

\* the marker line immediately before the first data-bearing line
HeaderLineOf(f) == f[FirstDataIndex(f) - 1]

\* the field names: the tokens of that line after its first token
SchemaOf(f) == Tail(split(HeaderLineOf(f)))

IsFullShape(line, n) == TokenCount(line) = n
IsContinuationShape(line, n) == TokenCount(line) # n /\ TokenCount(line) = n - 1

RECURSIVE ScanFrom(_, _, _, _, _, _)
\* The records the lines k..upto of f are to produce, read with n columns, and
\* the position of the first data line that is not accepted (0: none).
\* st: the identifier and layer of the group the scan is in.
ScanFrom(f, n, k, upto, st, acc) ==
    IF k > upto THEN [recs |-> acc, stop |-> 0]
    ELSE IF ~IsData(f[k]) THEN ScanFrom(f, n, k + 1, upto, st, acc)
    ELSE LET t == split(f[k])
         IN  IF Len(t) = n /\ Len(t) > 0
             THEN ScanFrom(f, n, k + 1, upto,
                           [full |-> TRUE, id |-> t[1], layer |-> 1],
                           Append(acc, <<t[1], str(1)>> \o Tail(t)))
             ELSE IF Len(t) = n - 1 /\ st.full
             THEN ScanFrom(f, n, k + 1, upto,
                           [full |-> TRUE, id |-> st.id, layer |-> st.layer + 1],
                           Append(acc, <<st.id, str(st.layer + 1)>> \o t))
             ELSE [recs |-> acc, stop |-> k]

Scan(f, n, upto) ==
    ScanFrom(f, n, 1, upto, [full |-> FALSE, id |-> <<>>, layer |-> 0], <<>>)

RECURSIVE RecordsText(_)
\* each record on a line of its own, after the header line
RecordsText(recs) ==
    IF recs = <<>> THEN <<>>
    ELSE Newline \o join(Comma, Head(recs)) \o RecordsText(Tail(recs))

\* the header record of a non-empty Schema: Layer at position 1
HeaderRecord(schema) == <<schema[1], LayerName>> \o Tail(schema)

RECURSIVE SplitOnFrom(_, _, _, _)
SplitOnFrom(s, ch, cur, acc) ==
    IF s = <<>> THEN Append(acc, cur)
    ELSE IF Head(s) = ch
         THEN SplitOnFrom(Tail(s), ch, <<>>, Append(acc, cur))
         ELSE SplitOnFrom(Tail(s), ch, Append(cur, Head(s)), acc)

\* re-tokenizing written text on a delimiter character
SplitOn(s, ch) == SplitOnFrom(s, ch, <<>>, <<>>)

\* the lines of the csv, and the fields of one of them
OutLines == SplitOn(out_csv, "\n")
Fields(text) == SplitOn(text, ",")

\* a record without its field at position 1
WithoutPosition1(fields) == <<fields[1]>> \o SubSeq(fields, 3, Len(fields))

HasComma(token) == \E c \in 1..Len(token) : token[c] = ","

\* the identifier of the most recent Full record before position p
FullPositionsBefore(p) ==
    { k \in 1..(p - 1) : IsData(headsout_file[k])
                            /\ IsFullShape(headsout_file[k], num_columns) }
LastFullBefore(p) ==
    CHOOSE k \in FullPositionsBefore(p) : \A m \in FullPositionsBefore(p) : m <= k
InheritedIdentifier(p) == split(headsout_file[LastFullBefore(p)])[1]

\* the run is inside headsout_to_csv with the csv opened, or has left it
InConversion == pc \in {"loop", "done"} \/ (pc = "failed" /\ error.kind # "TypeError")
ConversionEnded == pc = "done" \/ (pc = "failed" /\ error.kind # "TypeError")

----------------------------------------------------------------------------
\* Layer counter

\* the original token sequence of the k-th accepted line
AcceptedTokens(k) == split(headsout_file[accepted[k].pos])

\* C1: for every accepted data line the Layer written at position 1 of its
\* record is 1 when the line has num_columns tokens, and the previous accepted
\* record's Layer plus 1 when it has num_columns - 1 tokens, whatever marker
\* lines lie in between.
C1_LayerResetsAndIncrements ==
    \A k \in 1..Len(accepted) :
        LET toks == AcceptedTokens(k)
            lay == accepted[k].rec[2]
        IN  /\ Len(toks) = num_columns => lay = str(1)
            /\ (Len(toks) # num_columns /\ Len(toks) = num_columns - 1) =>
                   /\ k > 1
                   /\ \E n \in 1..Len(headsout_file) :
                          /\ accepted[k - 1].rec[2] = str(n)
                          /\ lay = str(n + 1)

\* a Full record, a marker line, then a Continuation record with Layer 2
C1_Witness ==
    /\ Len(accepted) >= 2
    /\ Len(AcceptedTokens(1)) = num_columns
    /\ Len(AcceptedTokens(2)) = num_columns - 1
    /\ accepted[2].pos = accepted[1].pos + 2
    /\ accepted[2].rec[2] = str(2)

----------------------------------------------------------------------------
\* Round trip

\* the k-th record of the csv, re-tokenized, without its field at position 1
RoundTrip(k) == WithoutPosition1(Fields(OutLines[k + 1]))

RoundTripHolds(k) ==
    LET toks == AcceptedTokens(k)
    IN  /\ Len(Fields(OutLines[k + 1])) >= 2
        /\ Len(toks) = num_columns => RoundTrip(k) = toks
        /\ (Len(toks) # num_columns /\ Len(toks) = num_columns - 1) =>
               RoundTrip(k) = <<InheritedIdentifier(accepted[k].pos)>> \o toks

\* the tokens that make up the k-th record
RecordTokens(k) ==
    LET toks == AcceptedTokens(k)
    IN  IF Len(toks) = num_columns THEN toks
        ELSE <<InheritedIdentifier(accepted[k].pos)>> \o toks

CommaFree(k) == \A t \in 1..Len(RecordTokens(k)) : ~HasComma(RecordTokens(k)[t])

\* C2 as stated: for every accepted line, the written record without its
\* field at position 1 is the original token sequence (Full) or the original
\* token sequence with the inherited identifier prepended (Continuation).
C2_RoundTripEveryLine ==
    InConversion => \A k \in 1..Len(accepted) : RoundTripHolds(k)

\* C2 amended: the round trip holds for every accepted line none of whose
\* tokens, inherited identifier included, contains a comma.
C2_RoundTripCommaFree ==
    InConversion => \A k \in 1..Len(accepted) : CommaFree(k) => RoundTripHolds(k)

\* a Continuation record that inherits the identifier of the second of two
\* Full records with different identifiers
C2_Witness ==
    /\ InConversion
    /\ Len(accepted) = 3
    /\ Len(AcceptedTokens(1)) = num_columns
    /\ Len(AcceptedTokens(2)) = num_columns
    /\ Len(AcceptedTokens(3)) = num_columns - 1
    /\ AcceptedTokens(1)[1] # AcceptedTokens(2)[1]
    /\ CommaFree(3)
    /\ RoundTrip(3) = <<AcceptedTokens(2)[1]>> \o AcceptedTokens(3)

----------------------------------------------------------------------------
\* Errors

\* the first data-bearing line has the Continuation shape
FirstDataIsContinuation ==
    /\ SchemaDerived(headsout_file)
    /\ IsContinuationShape(headsout_file[FirstDataIndex(headsout_file)], num_columns)

\* C3: when the first data line is a Continuation record the conversion
\* fails with the dedicated SequenceError.
C3_ContinuationFirstRaisesSequenceError ==
    (ConversionEnded /\ FirstDataIsContinuation) =>
        (pc = "failed" /\ error.kind = "SequenceError")

\* the position of the first data line that is not accepted (0: none)
FirstRejected == Scan(headsout_file, num_columns, Len(headsout_file)).stop

BadCount(line) == ~IsFullShape(line, num_columns) /\ ~IsContinuationShape(line, num_columns)

\* C4: a non-marker line whose token count is neither num_columns nor
\* num_columns - 1 ends the conversion with the record-shape error
\* (ValueError), whose line number is the 1-based position of that line among
\* all physical lines, marker lines included; and no other line raises it.
C4_ShapeErrorCarriesLineNumber ==
    ConversionEnded =>
        /\ (FirstRejected # 0 /\ BadCount(headsout_file[FirstRejected])) =>
               /\ pc = "failed"
               /\ error = [kind |-> "ValueError", line |-> FirstRejected]
        /\ (pc = "failed" /\ error.kind = "ValueError") =>
               /\ error.line \in DataIndices(headsout_file)
               /\ BadCount(headsout_file[error.line])

\* a shape error at line 4 of a stream that has marker lines at 1 and 3
C4_Witness ==
    /\ pc = "failed"
    /\ error = [kind |-> "ValueError", line |-> 4]
    /\ ~IsData(headsout_file[3])
    /\ Len(accepted) = 1

----------------------------------------------------------------------------
\* Scenario

DATE == <<"D", "A", "T", "E">>
NODE1 == <<"N", "O", "D", "E", "1">>
NODE2 == <<"N", "O", "D", "E", "2">>
ScenarioIdentifier ==
    <<"0", "1", "/", "0", "1", "/", "2", "0", "0", "0", "_", "0", "0", "0", "0">>
ScenarioRecord == <<ScenarioIdentifier, <<"1">>, <<"1", ".", "1">>, <<"2", ".", "2">>>>
\* "DATE,Layer,NODE1,NODE2" and "01/01/2000_0000,1,1.1,2.2"
ScenarioHeaderText ==
    <<"D", "A", "T", "E", ",", "L", "a", "y", "e", "r", ",",
      "N", "O", "D", "E", "1", ",", "N", "O", "D", "E", "2">>
ScenarioRecordText ==
    <<"0", "1", "/", "0", "1", "/", "2", "0", "0", "0", "_", "0", "0", "0", "0",
      ",", "1", ",", "1", ".", "1", ",", "2", ".", "2">>

\* the outcome the scenario describes, for the stream `stream`
ScenarioOutcome(stream) ==
    headsout_file = stream =>
        /\ pc = "open" => header = Return(<<DATE, NODE1, NODE2>>)
        /\ pc # "failed"
        /\ pc = "done" =>
               /\ header = Return(<<DATE, LayerName, NODE1, NODE2>>)
               /\ accepted = <<[pos |-> 2, rec |-> ScenarioRecord]>>
               /\ out_csv = ScenarioHeaderText \o Newline \o ScenarioRecordText

\* C5 as stated: for the marker line "* 1 DATE NODE1 NODE2" followed by the
\* data line, the header is [DATE, NODE1, NODE2], the data line is a Full
\* record, and the csv holds the header [DATE, Layer, NODE1, NODE2] and the
\* record [01/01/2000_0000, 1, 1.1, 2.2].
C5_ScenarioAsStated == ScenarioOutcome(ScenarioStream)

\* C5 amended: that outcome is the one of the marker line "* DATE NODE1 NODE2"
\* (only the leading "*" token is dropped); for "* 1 DATE NODE1 NODE2" the
\* header is [1, DATE, NODE1, NODE2], the data line has the Continuation
\* shape, and the conversion stops at it with only the header line
\* "1,Layer,DATE,NODE1,NODE2" written.
C5_ScenarioAmended ==
    /\ ScenarioOutcome(ScenarioStreamNoLabel)
    /\ headsout_file = ScenarioStream =>
           /\ pc = "open" => header = Return(<<<<"1">>, DATE, NODE1, NODE2>>)
           /\ pc # "done"
           /\ pc = "failed" =>
                  /\ error.kind = "UnboundLocalError"
                  /\ accepted = <<>>
                  /\ out_csv = <<"1", ",">> \o LayerName \o Comma \o DATE
                                   \o Comma \o NODE1 \o Comma \o NODE2

C5_Witness ==
    /\ headsout_file = ScenarioStreamNoLabel
    /\ pc = "done"
    /\ out_csv = ScenarioHeaderText \o Newline \o ScenarioRecordText

----------------------------------------------------------------------------
\* Schema

\* header extraction is over and gave a Schema
SchemaKnown == pc = "open" \/ InConversion

\* C6 as stated: len(Schema) before Layer insertion equals the token count of
\* the first data-bearing line, so that this line is a Full record.
C6_ColumnsFromFirstDataLine ==
    SchemaKnown =>
        num_columns = TokenCount(headsout_file[FirstDataIndex(headsout_file)])

\* C6 amended: len(Schema) equals the token count of the marker line
\* immediately before the first data-bearing line, minus one; the first
\* data-bearing line is accepted as a Full record only if its own token count
\* equals that number, and no line is accepted before it.
C6_ColumnsFromHeaderLine ==
    SchemaKnown =>
        /\ SchemaDerived(headsout_file)
        /\ num_columns = TokenCount(HeaderLineOf(headsout_file)) - 1
        /\ accepted # <<>> =>
               /\ accepted[1].pos = FirstDataIndex(headsout_file)
               /\ TokenCount(headsout_file[accepted[1].pos]) = num_columns

\* a header line of two field names before a first data line of one token
C6_Witness ==
    /\ pc = "failed"
    /\ num_columns = 2
    /\ SchemaDerived(headsout_file)
    /\ TokenCount(headsout_file[FirstDataIndex(headsout_file)]) = 1
    /\ accepted = <<>>

----------------------------------------------------------------------------
\* No data

HeaderExtracted == pc \in {"open", "loop", "done", "failed"}

\* C7: a stream without any data-bearing line is a non-fatal condition:
\* headsout_to_csv checks for the no-header result and ends without an error.
C7_NoDataEndsWithoutError ==
    (HeaderExtracted /\ ~HasData(headsout_file)) => pc # "failed"

\* C8: on a stream without data lines get_header_from_headsout_file returns
\* None and raises nothing.
C8_NoDataReturnsNone ==
    (HeaderExtracted /\ ~HasData(headsout_file)) =>
        /\ header = None
        /\ error.kind \in {"", "TypeError"}

\* a stream of two marker lines
C8_Witness ==
    /\ HeaderExtracted
    /\ Len(headsout_file) >= 2
    /\ ~HasData(headsout_file)
    /\ header = None

----------------------------------------------------------------------------
\* Output discipline

\* the data lines among the first n physical lines
DataLinesUpTo(n) == { k \in 1..n : IsData(headsout_file[k]) }

AcceptedPositions == { accepted[k].pos : k \in 1..Len(accepted) }

\* one complete record for each data line read so far, in input order, and
\* nothing else after the header text
RecordsAsExpected(headerText) ==
    /\ out_csv = headerText \o RecordsText(Scan(headsout_file, num_columns, i).recs)
    /\ AcceptedPositions = DataLinesUpTo(i)
    /\ Len(OutLines) = 1 + Len(accepted)
    /\ \A k \in 1..Len(accepted) :
           /\ OutLines[k + 1] = join(Comma, accepted[k].rec)
           /\ k > 1 => accepted[k - 1].pos < accepted[k].pos
    /\ pc = "failed" => IsData(headsout_file[i + 1]) /\ (i + 1) \notin AcceptedPositions

\* C9 as stated: the csv is the header record, the field names with Layer at
\* position 1, then one complete record per data line accepted so far, in
\* input order, nothing for marker lines or for the line that raised.
C9_HeaderThenAcceptedRecords ==
    InConversion =>
        /\ LET fields == Fields(OutLines[1])
           IN  /\ Len(fields) >= 2
               /\ fields[2] = LayerName
               /\ WithoutPosition1(fields) = SchemaOf(headsout_file)
        /\ RecordsAsExpected(OutLines[1])

\* C9 amended: as stated, except that for an empty Schema the header record
\* is the single field Layer.
C9_HeaderThenAcceptedRecordsAmended ==
    InConversion =>
        RecordsAsExpected(IF SchemaOf(headsout_file) = <<>>
                          THEN LayerName
                          ELSE join(Comma, HeaderRecord(SchemaOf(headsout_file))))

\* the conversion stopped at a line after two accepted records and a marker
C9_Witness ==
    /\ pc = "failed"
    /\ error.kind = "ValueError"
    /\ Len(accepted) = 2
    /\ i = 3
    /\ Len(OutLines) = 3

----------------------------------------------------------------------------
\* Repeated runs

\* the csv a complete conversion of the input produces
CompleteCsv ==
    /\ SchemaDerived(headsout_file)
    /\ LET n == Len(SchemaOf(headsout_file))
           s == Scan(headsout_file, n, Len(headsout_file))
       IN  /\ s.stop = 0
           /\ Len(s.recs) = Cardinality(DataIndices(headsout_file))
           /\ out_csv = join(Comma, insert(SchemaOf(headsout_file), 1, LayerName))
                            \o RecordsText(s.recs)

\* C10: whenever a run finds the csv and skips the conversion, the csv holds
\* the header and one record for every data line of the input.
C10_SkippedOnlyOverCompleteCsv == pc = "skipped" => CompleteCsv

====
